---- MODULE Spec2Model ----
(***************************************************************************)
(* A model of gptkline.py: the report pipeline behind the "generate        *)
(* report" button (download_data with its 30 minute cache,                 *)
(* compute_indicators, generate_detailed_report and the rendering), and    *)
(* the pure functions it is built from.                                    *)
(*                                                                         *)
(* Numbers.  Prices and volumes are integers.  Prices count multiples of   *)
(* 1e-9, the epsilon classify_candle adds to a bar's range, so that the    *)
(* epsilon is the integer Eps.  A float that the code obtains by division  *)
(* is a fraction [n, d] with d >= 0; d = 0 encodes what IEEE division by   *)
(* zero gives: n > 0 is +inf, n < 0 is -inf and n = 0 is NaN.  Every       *)
(* comparison with NaN is false, as in numpy.  The exponential averages    *)
(* are kept in fixed point, Scale units per price unit, rounded to the     *)
(* nearest unit at every step.                                             *)
(***************************************************************************)
EXTENDS Integers, Sequences, FiniteSets, TLC

(* ------------------------------ bounds --------------------------------- *)
MaxPrice == 4          \* candle inputs range over 0..MaxPrice
MaxK == 3              \* scaling factors range over 1..MaxK
MaxBars == 21          \* the data source returns up to MaxBars bars
MaxTail == 15          \* the last bars of a series that move by its second step

(* ------------------------- program constants --------------------------- *)
Eps == 1               \* the 1e-9 of classify_candle, in price units
Scale == 1000          \* fixed-point units per price unit (3 decimals)

(* ----------------------------- floats ---------------------------------- *)
Num(x) == [n |-> x, d |-> 1]
Frac(a, b) == [n |-> a, d |-> b]
NaN == [n |-> 0, d |-> 0]
PosInf == [n |-> 1, d |-> 0]
NegInf == [n |-> -1, d |-> 0]
IsNaN(x) == x.d = 0 /\ x.n = 0
IsInf(x) == x.d = 0 /\ x.n # 0
IsFinite(x) == x.d > 0
Sign(i) == IF i > 0 THEN 1 ELSE IF i < 0 THEN -1 ELSE 0
Abs(i) == IF i < 0 THEN -i ELSE i
Max2(a, b) == IF a > b THEN a ELSE b
Min2(a, b) == IF a < b THEN a ELSE b

\* a / b on floats: x/0 is +-inf, 0/0 is NaN, x/inf is 0, inf/inf is NaN.
FDiv(a, b) ==
    IF IsNaN(a) \/ IsNaN(b) THEN NaN
    ELSE IF IsInf(a) /\ IsInf(b) THEN NaN
    ELSE IF IsInf(a) THEN Frac(Sign(a.n) * (IF b.n < 0 THEN -1 ELSE 1), 0)
    ELSE IF IsInf(b) THEN Num(0)
    ELSE IF b.n = 0 THEN Frac(Sign(a.n), 0)
    ELSE Frac(a.n * b.d * Sign(b.n), a.d * Abs(b.n))

\* a + b on floats.
FAdd(a, b) ==
    IF IsNaN(a) \/ IsNaN(b) THEN NaN
    ELSE IF IsInf(a) /\ IsInf(b) THEN (IF a.n = b.n THEN a ELSE NaN)
    ELSE IF IsInf(a) THEN a
    ELSE IF IsInf(b) THEN b
    ELSE Frac(a.n * b.d + b.n * a.d, a.d * b.d)

FNeg(a) == Frac(-a.n, a.d)
FSub(a, b) == FAdd(a, FNeg(b))

\* a < b and a > b on floats; false when either side is NaN.
FLt(a, b) ==
    IF IsNaN(a) \/ IsNaN(b) THEN FALSE
    ELSE IF IsInf(a) THEN a.n < 0 /\ ~(IsInf(b) /\ b.n < 0)
    ELSE IF IsInf(b) THEN b.n > 0
    ELSE a.n * b.d < b.n * a.d
FGt(a, b) == FLt(b, a)
FLe(a, b) == ~IsNaN(a) /\ ~IsNaN(b) /\ ~FLt(b, a)

\* round(x, places) and the f"{x:.Nf}" formats: the value in units of
\* 1/unit, rounded to the nearest unit; "nan" and "inf" print as themselves.
RoundDiv(a, b) == (2 * a + b) \div (2 * b)
Fmt(x, unit) ==
    IF IsNaN(x) THEN "nan"
    ELSE IF IsInf(x) THEN (IF x.n > 0 THEN "inf" ELSE "-inf")
    ELSE RoundDiv(x.n * unit, x.d)

(* ------------------------- classify_candle ----------------------------- *)
\* The labels: body "doji" is the doji/small-body label, "bull" and "bear"
\* the red and green candle; suffix "lower", "upper" and "long" are the long
\* lower wick, long upper wick and long body suffixes, "none" no suffix.
\* The wick tests without the comparison of the two wicks.
WickSuffixNoCompare(body, upper, lower, body_ratio) ==
    IF lower > body * 2 THEN "lower"
    ELSE IF upper > body * 2 THEN "upper"
    ELSE IF FGt(body_ratio, Frac(7, 10)) THEN "long"
    ELSE "none"

WickSuffix(body, upper, lower, body_ratio) ==
    IF lower > body * 2 /\ lower > upper THEN "lower"
    ELSE IF upper > body * 2 /\ upper > lower THEN "upper"
    ELSE IF FGt(body_ratio, Frac(7, 10)) THEN "long"
    ELSE "none"

classify_candle(o, h, l, c) ==
    LET body == Abs(c - o)
        full == h - l + Eps
        upper == h - Max2(c, o)
        lower == Min2(c, o) - l
        body_ratio == IF full > 0 THEN Frac(body, full) ELSE Num(0)
        typ == IF FLt(body_ratio, Frac(15, 100)) THEN "doji"
               ELSE IF c > o THEN "bull" ELSE "bear"
    IN  [body |-> typ, suffix |-> WickSuffix(body, upper, lower, body_ratio)]

(* --------------------------- series helpers ---------------------------- *)
RECURSIVE SumRange(_, _, _)
\* x[lo] + ... + x[hi], 0 for an empty range
SumRange(x, lo, hi) == IF lo > hi THEN 0 ELSE x[hi] + SumRange(x, lo, hi - 1)

Column(df, name) == [i \in 1..Len(df) |-> df[i][name]]

\* df[col].iloc[-k], the k-th value from the end, exists when the frame has
\* at least k rows; pandas raises IndexError otherwise.  A function that
\* raises returns Raised(exception) in place of its value.
HasILoc(df, k) == k >= 1 /\ k <= Len(df)
ILocNeg(df, col, k) == df[Len(df) + 1 - k][col]
Raised(e) == [raised |-> e]
IsRaised(r) == "raised" \in DOMAIN r
\* df.tail(k)
Tail_k(df, k) == SubSeq(df, Max2(1, Len(df) - k + 1), Len(df))

(* --------------------------- download_data ----------------------------- *)
\* A table of the data source: adj says whether it has an 'Adj Close'
\* column; a row with missing = TRUE has a NaN cell.  download_data adds
\* Close_for_calc and drops the rows with a NaN cell.
CloseForCalc(raw) ==
    [i \in 1..Len(raw.rows) |->
        [date |-> raw.rows[i].date, Open |-> raw.rows[i].Open,
         High |-> raw.rows[i].High, Low |-> raw.rows[i].Low,
         Volume |-> raw.rows[i].Volume, missing |-> raw.rows[i].missing,
         Close_for_calc |-> IF raw.adj THEN raw.rows[i].AdjClose
                            ELSE raw.rows[i].Close]]

DropNa(rows) ==
    LET kept == SelectSeq(rows, LAMBDA r : ~r.missing)
    IN  [i \in 1..Len(kept) |->
            [date |-> kept[i].date, Open |-> kept[i].Open, High |-> kept[i].High,
             Low |-> kept[i].Low, Volume |-> kept[i].Volume,
             Close_for_calc |-> kept[i].Close_for_calc]]

download_data_body(raw) ==
    IF Len(raw.rows) = 0 THEN <<>> ELSE DropNa(CloseForCalc(raw))

(* ------------------------- compute_indicators -------------------------- *)
\* ewm(span, adjust=False).mean() of a fixed-point series:
\* y[1] = x[1], y[i] = (1 - alpha) y[i-1] + alpha x[i], alpha = 2/(span+1).
EwmStep(prev, cur, span) == RoundDiv((span - 1) * prev + 2 * cur, span + 1)

RECURSIVE EwmFrom(_, _, _)
EwmFrom(x, span, acc) ==
    IF Len(acc) = Len(x) THEN acc
    ELSE EwmFrom(x, span,
                 Append(acc, IF Len(acc) = 0 THEN x[1]
                             ELSE EwmStep(acc[Len(acc)], x[Len(acc) + 1], span)))
EwmMean(x, span) == EwmFrom(x, span, <<>>)

\* c.diff(): NaN at the first row.
Diff(c) == [i \in 1..Len(c) |-> IF i = 1 THEN NaN ELSE Num(c[i] - c[i - 1])]

\* delta.where(delta > 0, 0) and -delta.where(delta < 0, 0): the NaN of the
\* first row fails both tests and becomes 0.
GainOf(delta) == [i \in 1..Len(delta) |-> IF FGt(delta[i], Num(0)) THEN delta[i].n ELSE 0]
LossOf(delta) == [i \in 1..Len(delta) |-> IF FLt(delta[i], Num(0)) THEN -delta[i].n ELSE 0]

\* x.rolling(window).mean() with min_periods = minp
RollingMean(x, window, minp) ==
    [i \in 1..Len(x) |->
        LET lo == Max2(1, i - window + 1)
        IN  IF i - lo + 1 < minp THEN NaN
            ELSE Frac(SumRange(x, lo, i), i - lo + 1)]

RsiWindow == 14
VolWindow == 20

\* A division that masks a zero average loss as missing.
RelativeStrengthMasked(gain, loss) == IF loss.n = 0 THEN NaN ELSE FDiv(gain, loss)

\* rs = gain / loss, a float division: x/0 is inf and 0/0 is NaN.
RelativeStrength(gain, loss) == FDiv(gain, loss)

RsiFromRs(rs) == FSub(Num(100), FDiv(Num(100), FAdd(Num(1), rs)))

RsiColumn(c) ==
    LET delta == Diff(c)
        gain == RollingMean(GainOf(delta), RsiWindow, RsiWindow)
        loss == RollingMean(LossOf(delta), RsiWindow, RsiWindow)
    IN  [i \in 1..Len(c) |-> RsiFromRs(RelativeStrength(gain[i], loss[i]))]

compute_indicators(df) ==
    LET c == [i \in 1..Len(df) |-> df[i].Close_for_calc * Scale]
        ema10 == EwmMean(c, 10)
        ema30 == EwmMean(c, 30)
        ema40 == EwmMean(c, 40)
        exp12 == EwmMean(c, 12)
        exp26 == EwmMean(c, 26)
        dif == [i \in 1..Len(df) |-> exp12[i] - exp26[i]]
        dea == EwmMean(dif, 9)
        rsi == RsiColumn(Column(df, "Close_for_calc"))
        volma == RollingMean(Column(df, "Volume"), VolWindow, 1)
    IN  [i \in 1..Len(df) |->
            [date |-> df[i].date, Open |-> df[i].Open, High |-> df[i].High,
             Low |-> df[i].Low, Volume |-> df[i].Volume,
             Close_for_calc |-> df[i].Close_for_calc,
             EMA10 |-> ema10[i], EMA30 |-> ema30[i], EMA40 |-> ema40[i],
             DIF |-> dif[i], DEA |-> dea[i], MACD_hist |-> dif[i] - dea[i],
             RSI |-> rsi[i], VOL_MA20 |-> volma[i]]]

FMul(a, b) ==
    IF IsNaN(a) \/ IsNaN(b) THEN NaN
    ELSE IF (IsInf(a) /\ b.n = 0) \/ (IsInf(b) /\ a.n = 0) THEN NaN
    ELSE IF IsInf(a) \/ IsInf(b) THEN Frac(Sign(a.n) * Sign(b.n), 0)
    ELSE Frac(a.n * b.n, a.d * b.d)

(* --------------------- single_candle_interpret ------------------------- *)
\* The RSI zone chosen by the chained conditional of the rsi_note.
RsiNoteZone(rsi) ==
    IF FGt(rsi, Num(70)) THEN "overbought"
    ELSE IF FLt(rsi, Num(30)) THEN "oversold"
    ELSE "neutral"

single_candle_interpret(row, ema10, ema30, vol_ma20, rsi) ==
    LET c == row.Close_for_calc * Scale
        typ == classify_candle(row.Open, row.High, row.Low, row.Close_for_calc)
        pos == IF c > ema10 THEN "above EMA10"
               ELSE IF c > ema30 THEN "between EMA10 and EMA30"
               ELSE "below EMA30"
        ratio == FDiv(Num(row.Volume), vol_ma20)
        vol_note == IF IsNaN(vol_ma20) \/ vol_ma20.n = 0 THEN [kind |-> "insufficient"]
                    ELSE IF FGt(ratio, Frac(15, 10)) THEN [kind |-> "high", ratio |-> Fmt(ratio, 100)]
                    ELSE IF FLt(ratio, Frac(7, 10)) THEN [kind |-> "low", ratio |-> Fmt(ratio, 100)]
                    ELSE [kind |-> "normal", ratio |-> Fmt(ratio, 100)]
    IN  [typ |-> typ, pos |-> pos, vol_note |-> vol_note,
         rsi_note |-> [value |-> Fmt(rsi, 10), zone |-> RsiNoteZone(rsi)]]

(* ------------------------- overall_trend_text -------------------------- *)
\* The row whose EMA the slope is measured from, counted from the end:
\* iloc[-5] when there are at least 6 rows, iloc[0] otherwise.
SlopeBase(df) == IF Len(df) >= 6 THEN Len(df) + 1 - 5 ELSE 1

TrendLabel(ema10, ema30, ema40, slope10, slope30) ==
    IF ema10 > ema30 /\ ema30 > ema40 /\ slope10 > 0 /\ slope30 > 0 THEN "bullish"
    ELSE IF ema10 < ema30 /\ ema30 < ema40 /\ slope10 < 0 THEN "bearish"
    ELSE "mixed"

overall_trend_text(df) ==
    IF ~HasILoc(df, 1) \/ (Len(df) >= 6 /\ ~HasILoc(df, 5)) THEN Raised("IndexError")
    ELSE LET last == df[Len(df)]
             slope10 == last.EMA10 - df[SlopeBase(df)].EMA10
             slope30 == last.EMA30 - df[SlopeBase(df)].EMA30
         IN  [trend |-> TrendLabel(last.EMA10, last.EMA30, last.EMA40, slope10, slope30)]

(* ----------------------------- macd_status ----------------------------- *)
\* macd_status reading iloc[-3] and iloc[-2] whatever the length.
MacdStatusReadsUnguarded(df) == {1, 2, 3}

\* The rows macd_status reads, counted from the end.
MacdStatusReads(df) ==
    {1} \cup (IF Len(df) >= 3 THEN {3} ELSE {}) \cup (IF Len(df) >= 2 THEN {2} ELSE {})

HistRising(df) ==
    IF Len(df) >= 3 THEN ILocNeg(df, "MACD_hist", 1) > ILocNeg(df, "MACD_hist", 3)
    ELSE ILocNeg(df, "MACD_hist", 1) > 0

macd_status(df) ==
    IF \E k \in MacdStatusReads(df) : ~HasILoc(df, k) THEN Raised("IndexError")
    ELSE LET dif == ILocNeg(df, "DIF", 1)
             dea == ILocNeg(df, "DEA", 1)
             hist == ILocNeg(df, "MACD_hist", 1)
             cross == IF Len(df) >= 2
                      THEN IF dif > dea /\ ILocNeg(df, "DIF", 2) <= ILocNeg(df, "DEA", 2)
                           THEN "golden"
                           ELSE IF dif < dea /\ ILocNeg(df, "DIF", 2) >= ILocNeg(df, "DEA", 2)
                           THEN "death"
                           ELSE "none"
                      ELSE "none"
         IN  [dif |-> dif, dea |-> dea, hist |-> hist,
              hist_trend |-> IF HistRising(df) THEN "rising" ELSE "falling",
              cross |-> cross]

(* ------------------------------ rsi_status ----------------------------- *)
rsi_status(last_rsi) ==
    IF FGt(last_rsi, Num(70)) THEN [zone |-> "overbought"]
    ELSE IF FLt(last_rsi, Num(30)) THEN [zone |-> "oversold"]
    ELSE [zone |-> "neutral", value |-> Fmt(last_rsi, 10)]

(* -------------------------- historical_context ------------------------- *)
HistoryBars == 10

\* last10['Close_for_calc'].pct_change(): NaN at the first row of the window.
PctChange(w) ==
    [i \in 1..Len(w) |->
        IF i = 1 THEN NaN
        ELSE FDiv(Num(w[i].Close_for_calc - w[i - 1].Close_for_calc),
                  Num(w[i - 1].Close_for_calc))]

\* Series.idxmax() / idxmin(): the first position holding the largest
\* (smallest) value that is not NaN; 0 when every value is NaN.
IdxMax(r) ==
    LET valid == {i \in 1..Len(r) : ~IsNaN(r[i])}
        best == {i \in valid : \A j \in valid : ~FGt(r[j], r[i])}
    IN  IF best = {} THEN 0 ELSE CHOOSE i \in best : \A j \in best : i <= j
IdxMin(r) ==
    LET valid == {i \in 1..Len(r) : ~IsNaN(r[i])}
        best == {i \in valid : \A j \in valid : ~FLt(r[j], r[i])}
    IN  IF best = {} THEN 0 ELSE CHOOSE i \in best : \A j \in best : i <= j

\* The length test off by one.
InsufficientHistoryOffByOne(df) == Len(df) <= HistoryBars

InsufficientHistory(df) == Len(df) < HistoryBars

historical_context(df) ==
    IF InsufficientHistory(df) THEN [kind |-> "insufficient data"]
    ELSE IF ~HasILoc(df, 1) \/ ~HasILoc(df, 10) THEN Raised("IndexError")
    ELSE LET last10 == Tail_k(df, 10)
             price_change_10d ==
                 FMul(FSub(FDiv(Num(ILocNeg(df, "Close_for_calc", 1)),
                                Num(ILocNeg(df, "Close_for_calc", 10))), Num(1)), Num(100))
             vol_mean == Frac(SumRange(Column(last10, "Volume"), 1, Len(last10)), Len(last10))
             vol_change_10d ==
                 IF ~IsNaN(ILocNeg(df, "VOL_MA20", 10))
                 THEN FMul(FSub(FDiv(vol_mean, ILocNeg(df, "VOL_MA20", 10)), Num(1)), Num(100))
                 ELSE Num(0)
             daily_returns == PctChange(last10)
             up == IdxMax(daily_returns)
             down == IdxMin(daily_returns)
         IN  IF up = 0 \/ down = 0 THEN Raised("ValueError")
             ELSE [kind |-> "context",
                   price_change_10d |-> Fmt(price_change_10d, 10),
                   vol_change_10d |-> Fmt(vol_change_10d, 10),
                   max_up_day |-> last10[up].date,
                   max_up_pct |-> Fmt(FMul(daily_returns[up], Num(100)), 10),
                   max_down_day |-> last10[down].date,
                   max_down_pct |-> Fmt(FMul(daily_returns[down], Num(100)), 10)]

(* --------------------------- future_scenarios -------------------------- *)
\* The rule table with the RSI test left out of the optimistic rule and the
\* volume test left out of the neutral rule.
future_scenarios_loose(df, last_rsi, macd_hist_trend, price_pos, vol_ratio) ==
    LET optimistic ==
            IF price_pos = "above EMA10" /\ macd_hist_trend = "rising"
            THEN "optimistic (high)" ELSE "optimistic (low)"
        pessimistic ==
            IF price_pos = "below EMA30" \/ FGt(last_rsi, Num(70))
            THEN "pessimistic (high)" ELSE "pessimistic (low)"
        neutral ==
            IF FLe(Num(30), last_rsi) /\ FLe(last_rsi, Num(70))
            THEN <<"neutral (high)">> ELSE <<>>
    IN  <<optimistic, pessimistic>> \o neutral

future_scenarios(df, last_rsi, macd_hist_trend, price_pos, vol_ratio) ==
    LET optimistic ==
            IF price_pos = "above EMA10" /\ macd_hist_trend = "rising" /\ FLt(last_rsi, Num(70))
            THEN "optimistic (high)" ELSE "optimistic (low)"
        pessimistic ==
            IF price_pos = "below EMA30" \/ FGt(last_rsi, Num(70))
            THEN "pessimistic (high)" ELSE "pessimistic (low)"
        neutral ==
            IF FLe(Num(30), last_rsi) /\ FLe(last_rsi, Num(70)) /\ FLt(vol_ratio, Frac(12, 10))
            THEN <<"neutral (high)">> ELSE <<>>
    IN  <<optimistic, pessimistic>> \o neutral

(* --------------------------- important_levels -------------------------- *)
SeqMax(x) == CHOOSE m \in {x[i] : i \in 1..Len(x)} : \A i \in 1..Len(x) : x[i] <= m
SeqMin(x) == CHOOSE m \in {x[i] : i \in 1..Len(x)} : \A i \in 1..Len(x) : x[i] >= m

important_levels(df) ==
    IF ~HasILoc(df, 1) THEN Raised("IndexError")
    ELSE LET last == df[Len(df)]
         IN  [EMA10 |-> last.EMA10, EMA30 |-> last.EMA30, EMA40 |-> last.EMA40,
              recent_high_20 |-> SeqMax(Column(Tail_k(df, 20), "High")),
              recent_low_20 |-> SeqMin(Column(Tail_k(df, 20), "Low"))]

(* ----------------------- generate_detailed_report ---------------------- *)
CentUnits == 10000000  \* 0.01 in price units: round(x, 2) keeps multiples of it
Round2(x) == RoundDiv(x, CentUnits) * CentUnits

\* The rows of the five-row table, one per row of df.tail(5).
PerCandleRows(df) ==
    LET last5 == Tail_k(df, 5)
    IN  [i \in 1..Len(last5) |->
            [date |-> last5[i].date,
             Open |-> Round2(last5[i].Open), High |-> Round2(last5[i].High),
             Low |-> Round2(last5[i].Low), Close |-> Round2(last5[i].Close_for_calc),
             Volume |-> last5[i].Volume,
             RSI |-> Fmt(last5[i].RSI, 10),
             interpretation |->
                 single_candle_interpret(last5[i], last5[i].EMA10, last5[i].EMA30,
                                         last5[i].VOL_MA20, last5[i].RSI)]]

\* The macd_trend handed to future_scenarios.
MacdTrend(df) ==
    IF Len(df) >= 3 /\ ILocNeg(df, "MACD_hist", 1) > ILocNeg(df, "MACD_hist", 3)
    THEN "rising" ELSE "neutral"

\* The momentum hint of the composite text.
MacdHint(df) ==
    LET hist == ILocNeg(df, "MACD_hist", 1)
        macd_hist_3ago == IF Len(df) >= 3 THEN ILocNeg(df, "MACD_hist", 3) ELSE 0
    IN  IF Len(df) >= 3 /\ hist > 0 /\ hist < macd_hist_3ago THEN "positive but shrinking"
        ELSE IF Len(df) >= 3 /\ hist > macd_hist_3ago THEN "expanding"
        ELSE "weak or converging"

PricePos(close, lv) ==
    IF close * Scale > lv.EMA10 THEN "above EMA10"
    ELSE IF close * Scale > lv.EMA30 THEN "between EMA10 and EMA30"
    ELSE "below EMA30"

\* macro is what get_macro_factors returns: the fetched summary, or the
\* fallback text of its except branch; it never raises.
generate_detailed_report(df, ticker, macro) ==
    IF ~HasILoc(df, 1) THEN Raised("IndexError")
    ELSE
    LET last == df[Len(df)]
        last_rsi == last.RSI
        vol_ratio == IF ~IsNaN(last.VOL_MA20) THEN FDiv(Num(last.Volume), last.VOL_MA20)
                     ELSE Num(1)
        quick == overall_trend_text(df)
        macd == macd_status(df)
        vol_note == IF IsNaN(last.VOL_MA20) THEN [kind |-> "insufficient"]
                    ELSE [kind |-> "ratio", vol_now |-> last.Volume,
                          vol_ma20 |-> Fmt(last.VOL_MA20, 1), ratio |-> Fmt(vol_ratio, 100)]
        rsi_note == rsi_status(last_rsi)
        lv == important_levels(df)
        hist_context == historical_context(df)
    IN  IF IsRaised(quick) THEN quick
        ELSE IF IsRaised(macd) THEN macd
        ELSE IF IsRaised(lv) THEN lv
        ELSE IF IsRaised(hist_context) THEN hist_context
        ELSE LET price_pos == PricePos(last.Close_for_calc, lv)
                 macd_trend == MacdTrend(df)
             IN  [ticker |-> ticker,
                  quick_summary |-> quick.trend,
                  indicators_text |-> macd,
                  volume_note |-> vol_note,
                  rsi_note |-> rsi_note,
                  levels_text |-> lv,
                  hist_context |-> hist_context,
                  future_scen |-> future_scenarios(df, last_rsi, macd_trend, price_pos, vol_ratio),
                  macd_hint |-> MacdHint(df),
                  per_candle_df |-> PerCandleRows(df),
                  current_price |-> last.Close_for_calc,
                  price_pos |-> price_pos,
                  macd_trend |-> macd_trend,
                  last_rsi |-> last_rsi,
                  vol_ratio |-> vol_ratio,
                  macro_text |-> macro,
                  sentiment_text |-> ticker]

(* ----------------------- generate_holding_advice ----------------------- *)
\* cost_price 0 stands for None (the handler passes None unless the input is
\* positive); the advice text is reduced to the values it is built from.
generate_holding_advice(report, shares, cost_price) ==
    IF shares <= 0 THEN [kind |-> "none"]
    ELSE [kind |-> "advice",
          cost_price |-> IF cost_price = 0 THEN Round2(RoundDiv(report.levels_text.EMA30, Scale))
                         ELSE cost_price,
          recent_trend |-> IF FGt(report.last_rsi, Num(60)) \/ FGt(report.vol_ratio, Frac(15, 10))
                           THEN "volatile" ELSE "stable",
          reduce_pct |-> IF FGt(report.last_rsi, Num(70)) \/ report.price_pos = "below EMA30"
                         THEN "30-50%" ELSE "20-30%",
          retain_shares |-> shares \div 2]

(* ------------------------- the data source ----------------------------- *)
\* What yf.download can return.  A table is built from a close series that
\* starts at Base, moves by d1 per bar and by d2 over its last `tail` bars,
\* and a profile that fixes the shape of the bars and the volumes.
Steps == {-1, 0, 1}
Profiles == {"flat", "body", "wick"}
Base == MaxBars + 2

RECURSIVE Closes(_, _, _, _)
Closes(n, d1, d2, tail) ==
    IF n = 0 THEN <<>>
    ELSE IF n = 1 THEN <<Base>>
    ELSE LET prev == Closes(n - 1, d1, d2, tail - 1)
         IN  Append(prev, prev[n - 1] + (IF tail >= 1 THEN d2 ELSE d1))

Bar(i, n, o, c, profile, missing) ==
    [date |-> i,
     Open |-> IF profile = "flat" THEN c ELSE o,
     High |-> IF profile = "wick" THEN Max2(o, c) + 1
              ELSE IF profile = "flat" THEN c ELSE Max2(o, c),
     Low |-> IF profile = "wick" THEN Min2(o, c) - 3
             ELSE IF profile = "flat" THEN c ELSE Min2(o, c),
     Close |-> c,
     AdjClose |-> c - 1,
     Volume |-> IF profile = "flat" THEN 0
                ELSE IF profile = "wick" /\ i = n THEN 20 ELSE 10,
     missing |-> missing]

\* hole is the row with a NaN cell (0: none; n + 1: every row).
Table(n, d1, d2, tail, profile, hole) ==
    LET c == Closes(n, d1, d2, tail)
    IN  [adj |-> profile = "wick",
         rows |-> [i \in 1..n |->
                     Bar(i, n, IF i = 1 THEN c[1] ELSE c[i - 1], c[i], profile,
                         hole = i \/ hole = n + 1)]]

(* ------------------------------ state ---------------------------------- *)
VARIABLES
    clock,     \* seconds since the process started
    cache,     \* st.cache_data of download_data: key -> [has, value, stored]
    log,       \* one entry per download_data call of a request, in order
    pc,        \* where the run_button handler is
    inputs,    \* the sidebar: ticker, period, interval, shares, cost_price
    df,        \* the handler's data frame
    report,    \* what generate_detailed_report returned
    ui,        \* what the handler has put on the page for this request
    calls,     \* compute_indicators / generate_detailed_report calls of this request
    cin,       \* a bar and a scaling factor given to classify_candle
    cout       \* the labels classify_candle returned for it

vars == <<clock, cache, log, pc, inputs, df, report, ui, calls, cin, cout>>
appVars == <<clock, cache, log, pc, inputs, df, report, ui, calls>>
candleVars == <<cin, cout>>

Tickers == {"TSLA", "AAPL"}
Periods == {"1mo", "6mo"}
Interval == "1d"
ShareChoices == {0, 100}

CacheTTL == 1800       \* ttl=60*30 seconds
TickSeconds == 900     \* the clock advances in steps of TickSeconds
MaxClock == 2700       \* the clock stops at MaxClock
MaxRequests == 2       \* report requests in one run of the model

\* A cache keyed by the ticker alone.
CacheKeyTickerOnly(ticker, period, interval) == <<ticker, "6mo", interval>>

CacheKey(ticker, period, interval) == <<ticker, period, interval>>
Keys == {CacheKey(t, p, Interval) : t \in Tickers, p \in Periods}
NoEntry == [has |-> FALSE, value |-> <<>>, stored |-> 0]
NoReport == [kind |-> "none"]
NoCandle == [body |-> "none", suffix |-> "none"]

\* An entry of the cache serves a call made at time now while it is younger
\* than the ttl.
CacheLive(entry, now) == entry.has /\ now - entry.stored < CacheTTL

\* A handler that tests the frame for None instead of for emptiness.
DfEmptyNoneTest(d) == FALSE

\* df.empty
DfEmpty(d) == Len(d) = 0

\* The tables the data source hands out while the application runs: no
\* rows, only rows with a NaN cell, and short and longer histories.
SourceTables ==
    { Table(0, 0, 0, 0, "body", 0),
      Table(2, 1, 1, 0, "body", 3),
      Table(3, 1, -1, 1, "wick", 2),
      Table(12, 1, 0, 3, "body", 0) }

InitApp ==
    /\ clock = 0
    /\ cache = [k \in Keys |-> NoEntry]
    /\ log = <<>>
    /\ pc = "idle"
    /\ inputs = [ticker |-> "TSLA", period |-> "6mo", interval |-> Interval,
                 shares |-> 0, cost_price |-> 0]
    /\ df = <<>>
    /\ report = NoReport
    /\ ui = {}
    /\ calls = [compute_indicators |-> 0, generate_detailed_report |-> 0]

InitCandleIdle ==
    /\ cin = [o |-> 0, h |-> 0, l |-> 0, c |-> 0, k |-> 1]
    /\ cout = [base |-> NoCandle, scaled |-> NoCandle]

Init == InitApp /\ InitCandleIdle

(* ---------------------- the run_button handler ------------------------- *)
\* The user sets the sidebar and presses the button: a new run of the script.
RunButton(t, p, sh) ==
    /\ pc \in {"idle", "done", "exception"}
    /\ Len(log) < MaxRequests
    /\ inputs' = [ticker |-> t, period |-> p, interval |-> Interval,
                  shares |-> sh, cost_price |-> 0]
    /\ pc' = "download"
    /\ df' = <<>>
    /\ report' = NoReport
    /\ ui' = {}
    /\ calls' = [compute_indicators |-> 0, generate_detailed_report |-> 0]
    /\ UNCHANGED <<clock, cache, log, candleVars>>

RequestKey == CacheKey(inputs.ticker, inputs.period, inputs.interval)

\* download_data served by st.cache_data from a live entry.
DownloadHit ==
    /\ pc = "download"
    /\ CacheLive(cache[RequestKey], clock)
    /\ df' = cache[RequestKey].value
    /\ log' = Append(log, [key |-> <<inputs.ticker, inputs.period, inputs.interval>>,
                           time |-> clock, called |-> FALSE,
                           result |-> cache[RequestKey].value])
    /\ pc' = "downloaded"
    /\ UNCHANGED <<clock, cache, inputs, report, ui, calls, candleVars>>

\* download_data run: yf.download is called and the result cached.
DownloadMiss ==
    /\ pc = "download"
    /\ ~CacheLive(cache[RequestKey], clock)
    /\ \E raw \in SourceTables :
         LET got == download_data_body(raw)
         IN  /\ df' = got
             /\ cache' = [cache EXCEPT ![RequestKey] =
                             [has |-> TRUE, value |-> got, stored |-> clock]]
             /\ log' = Append(log, [key |-> <<inputs.ticker, inputs.period, inputs.interval>>,
                                    time |-> clock, called |-> TRUE, result |-> got])
    /\ pc' = "downloaded"
    /\ UNCHANGED <<clock, inputs, report, ui, calls, candleVars>>

\* if df.empty: st.error(...)
ShowError ==
    /\ pc = "downloaded"
    /\ DfEmpty(df)
    /\ ui' = ui \cup {"error"}
    /\ pc' = "done"
    /\ UNCHANGED <<clock, cache, log, inputs, df, report, calls, candleVars>>

\* else: df = compute_indicators(df), then the low-data warning.
ComputeIndicators ==
    /\ pc = "downloaded"
    /\ ~DfEmpty(df)
    /\ df' = compute_indicators(df)
    /\ calls' = [calls EXCEPT !.compute_indicators = @ + 1]
    /\ ui' = IF Len(df) < 20 THEN ui \cup {"warning"} ELSE ui
    /\ pc' = "computed"
    /\ UNCHANGED <<clock, cache, log, inputs, report, candleVars>>

\* report = generate_detailed_report(df, ticker); an exception ends the run.
GenerateReport ==
    /\ pc = "computed"
    /\ \E macro \in {"fetched", "fallback"} :
         report' = generate_detailed_report(df, inputs.ticker, macro)
    /\ calls' = [calls EXCEPT !.generate_detailed_report = @ + 1]
    /\ pc' = IF IsRaised(report') THEN "exception" ELSE "reported"
    /\ UNCHANGED <<clock, cache, log, inputs, df, ui, candleVars>>

\* The chart, the CSV download, the text panels, the table, the holding
\* advice when shares > 0, the hint and the success notice.
ReportParts == {"chart", "csv", "text", "table", "info", "success"}
Render ==
    /\ pc = "reported"
    /\ ui' = ui \cup ReportParts
                \cup (IF generate_holding_advice(report, inputs.shares,
                                                 inputs.cost_price).kind = "advice"
                      THEN {"holding"} ELSE {})
    /\ pc' = "done"
    /\ UNCHANGED <<clock, cache, log, inputs, df, report, calls, candleVars>>

\* Time passes between two requests.
Tick ==
    /\ pc \in {"idle", "done", "exception"}
    /\ clock + TickSeconds <= MaxClock
    /\ clock' = clock + TickSeconds
    /\ UNCHANGED <<cache, log, pc, inputs, df, report, ui, calls, candleVars>>

Next ==
    \/ \E t \in Tickers, p \in Periods, sh \in ShareChoices : RunButton(t, p, sh)
    \/ DownloadHit
    \/ DownloadMiss
    \/ ShowError
    \/ ComputeIndicators
    \/ GenerateReport
    \/ Render
    \/ Tick

Spec == Init /\ [][Next]_vars

(* --------------- the pipeline on one loaded data frame ----------------- *)
\* The state right after the first request's download_data call returned,
\* for every table of the family.
ReportTables ==
    { Table(n, d1, d2, tail, profile, 0) :
        n \in 0..MaxBars, d1 \in Steps, d2 \in Steps, tail \in 0..MaxTail,
        profile \in Profiles }

InitReport ==
    /\ clock = 0
    /\ inputs = [ticker |-> "TSLA", period |-> "6mo", interval |-> Interval,
                 shares |-> 100, cost_price |-> 0]
    /\ df \in {download_data_body(raw) : raw \in ReportTables}
    /\ cache = [k \in Keys |->
                  IF k = CacheKey("TSLA", "6mo", Interval)
                  THEN [has |-> TRUE, value |-> df, stored |-> 0] ELSE NoEntry]
    /\ log = <<[key |-> <<"TSLA", "6mo", Interval>>, time |-> 0, called |-> TRUE,
                result |-> df]>>
    /\ pc = "downloaded"
    /\ report = NoReport
    /\ ui = {}
    /\ calls = [compute_indicators |-> 0, generate_detailed_report |-> 0]
    /\ InitCandleIdle

NextReport ==
    \/ ShowError
    \/ ComputeIndicators
    \/ GenerateReport
    \/ Render

SpecReport == InitReport /\ [][NextReport]_vars

(* ------------------- classify_candle on one bar ------------------------ *)
CandleBars ==
    { b \in [o : 0..MaxPrice, h : 0..MaxPrice, l : 0..MaxPrice, c : 0..MaxPrice] :
        b.l <= Min2(b.o, b.c) /\ Max2(b.o, b.c) <= b.h }

InitCandle ==
    /\ InitApp
    /\ \E b \in CandleBars, k \in 1..MaxK :
         cin = [o |-> b.o, h |-> b.h, l |-> b.l, c |-> b.c, k |-> k]
    /\ cout = [base |-> NoCandle, scaled |-> NoCandle]

\* The bar and the bar scaled by k are classified.
ClassifyBar ==
    /\ cout.base = NoCandle
    /\ cout' = [base |-> classify_candle(cin.o, cin.h, cin.l, cin.c),
                scaled |-> classify_candle(cin.k * cin.o, cin.k * cin.h,
                                           cin.k * cin.l, cin.k * cin.c)]
    /\ UNCHANGED <<appVars, cin>>

NextCandle == ClassifyBar

SpecCandle == InitCandle /\ [][NextCandle]_vars

(* ============================== claims ================================= *)
\* The request in progress is the last entry of the log once its
\* download_data call has returned.
Loaded == pc \in {"downloaded", "computed", "reported", "done", "exception"} /\ Len(log) > 0
LoadedRows == Len(log[Len(log)].result)
Reported == pc \in {"reported", "done"} /\ "ticker" \in DOMAIN report

\* C1: when download_data returns an empty frame the handler shows the error
\* and stops: compute_indicators and generate_detailed_report are not called
\* for the request and no part of a report is put on the page.
C1_EmptyHalts ==
    (Loaded /\ LoadedRows = 0) =>
        /\ pc \in {"downloaded", "done"}
        /\ calls.compute_indicators = 0
        /\ calls.generate_detailed_report = 0
        /\ report = NoReport
        /\ ui \subseteq {"error"}
        /\ (pc = "done" => ui = {"error"})

C1_Witness == Loaded /\ LoadedRows = 0 /\ pc = "done" /\ ui = {"error"}

\* C4 as claimed: a bar with open = close and high > low gets the doji label
\* and no suffix, whatever its wicks.
C4_NoSuffixOnZeroBody ==
    (cout.base # NoCandle /\ cin.o = cin.c /\ cin.h > cin.l) =>
        cout.base = [body |-> "doji", suffix |-> "none"]

\* C4 amended: a bar with open = close and high > low gets the doji label;
\* its suffix is the long lower wick when the lower wick is the longer one,
\* the long upper wick when the upper wick is the longer one, and none when
\* the wicks are equal (never the long body).
C4_ZeroBodySuffixIsLongerWick ==
    (cout.base # NoCandle /\ cin.o = cin.c /\ cin.h > cin.l) =>
        /\ cout.base.body = "doji"
        /\ cout.base.suffix =
              (IF cin.o - cin.l > cin.h - cin.o THEN "lower"
               ELSE IF cin.h - cin.o > cin.o - cin.l THEN "upper"
               ELSE "none")

C4_Witness ==
    /\ cout.base # NoCandle /\ cin.o = cin.c
    /\ cin.o - cin.l > 0 /\ cin.h - cin.o > cin.o - cin.l
    /\ cout.base = [body |-> "doji", suffix |-> "upper"]

\* C9: scaling open, high, low and close of a bar by the same positive
\* factor leaves the label of classify_candle unchanged.
C9_ScaleInvariant ==
    cout.base # NoCandle => cout.scaled = cout.base

\* The keys of a report and of its computed historical context.
ReportKeys ==
    {"ticker", "quick_summary", "indicators_text", "volume_note", "rsi_note",
     "levels_text", "hist_context", "future_scen", "macd_hint", "per_candle_df",
     "current_price", "price_pos", "macd_trend", "last_rsi", "vol_ratio",
     "macro_text", "sentiment_text"}
ContextKeys ==
    {"kind", "price_change_10d", "vol_change_10d", "max_up_day", "max_up_pct",
     "max_down_day", "max_down_pct"}

\* C2: a request whose loaded frame has at least one row is taken past the
\* emptiness test and never ends in an exception, whatever the number of
\* rows, the volumes and the bar ranges; its report has every key, one table
\* row per loaded bar up to five and the scenario blocks, and the finished
\* page has every part of the report and no error.
C2_NonEmptyCompletes ==
    (Loaded /\ LoadedRows >= 1) =>
        /\ pc # "exception"
        /\ (pc = "downloaded" => Len(df) >= 1)
        /\ (pc \in {"reported", "done"} =>
                /\ DOMAIN report = ReportKeys
                /\ Len(report.per_candle_df) = Min2(5, LoadedRows)
                /\ Len(report.future_scen) >= 2)
        /\ (pc = "done" => ReportParts \subseteq ui /\ "error" \notin ui)

C2_Witness ==
    /\ pc = "done" /\ LoadedRows = 1 /\ "success" \in ui
    /\ df[1].Volume = 0 /\ df[1].High = df[1].Low

\* C3: the report's historical context is the fixed insufficient-data
\* message, and nothing else, exactly when the frame has fewer than 10 rows;
\* from 10 rows on it is the computed context.
C3_InsufficientBelowTen ==
    Reported =>
        /\ (Len(df) < 10 <=> report.hist_context.kind = "insufficient data")
        /\ (Len(df) < 10 => report.hist_context = [kind |-> "insufficient data"])
        /\ (Len(df) >= 10 =>
                /\ report.hist_context.kind = "context"
                /\ DOMAIN report.hist_context = ContextKeys
                /\ report.hist_context.max_up_day \in {df[i].date : i \in Len(df) - 8..Len(df)}
                /\ report.hist_context.max_down_day \in {df[i].date : i \in Len(df) - 8..Len(df)})

C3_Witness ==
    Reported /\ Len(df) = 9 /\ report.hist_context = [kind |-> "insufficient data"]

ConstantSeries(d) == \A i \in 1..Len(d) : d[i].Close_for_calc = d[1].Close_for_calc
Computed == pc \in {"computed", "reported", "done"}

\* C5: for a constant price series of 15 or more bars the RSI of every bar
\* after warm-up is a number and the MACD histogram is 0.
C5_ConstantSeriesRsiDefined ==
    (Computed /\ Len(df) >= 15 /\ ConstantSeries(df)) =>
        \A i \in 15..Len(df) : df[i].RSI.d > 0 /\ df[i].MACD_hist = 0

TrailingGains(d) ==
    /\ Len(d) >= 15
    /\ \A i \in Len(d) - 13..Len(d) : d[i].Close_for_calc > d[i - 1].Close_for_calc

\* C6: when the last 14 price deltas are all positive, the RSI of the last
\* bar is a number above 70 and every zone reported for it is overbought.
C6_AllGainsOverbought ==
    (Reported /\ TrailingGains(df)) =>
        /\ df[Len(df)].RSI.d > 0
        /\ df[Len(df)].RSI.n > 70 * df[Len(df)].RSI.d
        /\ report.rsi_note.zone = "overbought"
        /\ report.per_candle_df[Len(report.per_candle_df)].interpretation.rsi_note.zone
              = "overbought"

\* The gains follow a loss, so the window is the only reason for the result.
C6_Witness ==
    /\ Reported /\ TrailingGains(df) /\ Len(df) >= 16
    /\ df[Len(df) - 14].Close_for_calc < df[Len(df) - 15].Close_for_calc
    /\ report.rsi_note.zone = "overbought"

Zones == {"overbought", "oversold", "neutral"}

\* C7: a bar whose RSI is undefined is given no zone: not in the table's
\* interpretation, not by rsi_status, and the scenarios do not treat it as a
\* number.
C7_UndefinedRsiHasNoZone ==
    Reported =>
        /\ \A i \in 1..Len(report.per_candle_df) :
              report.per_candle_df[i].RSI = "nan" =>
                  report.per_candle_df[i].interpretation.rsi_note.zone \notin Zones
        /\ (IsNaN(report.last_rsi) => report.rsi_note.zone \notin Zones)

\* The call that filled the entry request j could be served from: an earlier
\* request of the same key that called the source less than the ttl before.
ServedBy(j) ==
    {i \in 1..j - 1 : /\ log[i].key = log[j].key
                      /\ log[i].called
                      /\ log[j].time - log[i].time < 1800}

\* C8: of two requests with the same (symbol, period, interval) less than 30
\* minutes apart at most one calls the data source, and when the first one
\* called it the second is served that call's result, empty or not; a
\* request calls the source exactly when no call for its own key was made
\* less than 30 minutes before it (another key, or an expired entry).
C8_CacheWithinTtl ==
    /\ \A i \in 1..Len(log), j \in 1..Len(log) :
          (i < j /\ log[i].key = log[j].key /\ log[j].time - log[i].time < 1800) =>
              /\ ~(log[i].called /\ log[j].called)
              /\ (log[i].called => log[j].result = log[i].result)
    /\ \A j \in 1..Len(log) : log[j].called <=> ServedBy(j) = {}

\* An empty result is served from the cache, and a later request after the
\* expiry calls again.
C8_Witness ==
    /\ Len(log) = 2
    /\ log[1].key = log[2].key /\ log[2].time - log[1].time = 900
    /\ log[1].called /\ ~log[2].called
    /\ log[1].result = <<>> /\ log[2].result = <<>>

\* The slope base the claim describes: the row five bars before the last.
ClaimedSlopeBase(d) == IF Len(d) >= 6 THEN Len(d) - 5 ELSE 1

\* C10: the trend label is the one obtained from the EMA ordering and the
\* slopes measured against the EMA five bars before the last bar (the first
\* bar when fewer than 6 bars exist).
C10_TrendFromFiveBarSlope ==
    Reported =>
        report.quick_summary =
            TrendLabel(df[Len(df)].EMA10, df[Len(df)].EMA30, df[Len(df)].EMA40,
                       df[Len(df)].EMA10 - df[ClaimedSlopeBase(df)].EMA10,
                       df[Len(df)].EMA30 - df[ClaimedSlopeBase(df)].EMA30)

\* The current MACD histogram and the one two bars back.
HistNow == df[Len(df)].MACD_hist
HistTwoBack == df[Len(df) - 2].MACD_hist

\* C11: with fewer than 3 bars the three histogram-trend decisions of the
\* report (the trend label of macd_status, the macd_trend given to
\* future_scenarios and the momentum hint) all say rising exactly when the
\* current histogram is positive; with 3 or more bars all three say rising
\* exactly when the current histogram is above the one two bars back.
C11_HistTrendDecisionsAgree ==
    Reported =>
        LET rising == IF Len(df) < 3 THEN HistNow > 0 ELSE HistNow > HistTwoBack
        IN  /\ (report.indicators_text.hist_trend = "rising") <=> rising
            /\ (report.macd_trend = "rising") <=> rising
            /\ (report.macd_hint = "expanding") <=> rising

\* 30 <= RSI <= 70 and volume ratio < 1.2 on the report's values; an
\* undefined RSI or ratio satisfies neither.
NeutralCase ==
    /\ report.last_rsi.d > 0
    /\ 30 * report.last_rsi.d <= report.last_rsi.n
    /\ report.last_rsi.n <= 70 * report.last_rsi.d
    /\ report.vol_ratio.d > 0
    /\ 10 * report.vol_ratio.n < 12 * report.vol_ratio.d

\* C12: the scenarios of a report are one optimistic block, one pessimistic
\* block (each in its high or low variant) and after them the neutral block
\* exactly when 30 <= RSI <= 70 and volume ratio < 1.2; the high optimistic
\* and the high pessimistic block are never in the same report.
C12_ScenarioBlocks ==
    Reported =>
        LET fs == report.future_scen
        IN  /\ Len(fs) \in {2, 3}
            /\ fs[1] \in {"optimistic (high)", "optimistic (low)"}
            /\ fs[2] \in {"pessimistic (high)", "pessimistic (low)"}
            /\ (Len(fs) = 3 => fs[3] = "neutral (high)")
            /\ (Len(fs) = 3 <=> NeutralCase)
            /\ ~(fs[1] = "optimistic (high)" /\ fs[2] = "pessimistic (high)")

\* All three blocks, the optimistic one in its high variant.
C12_Witness ==
    /\ Reported
    /\ report.future_scen = <<"optimistic (high)", "pessimistic (low)", "neutral (high)">>

====
